---- MODULE Spec2Model ----
(***************************************************************************)
(* Model of five_qubit_ecc.py: the five-qubit error correcting code run    *)
(* as a Qiskit circuit (prepare_state, error_channel, measure_syndromes,   *)
(* error_correction, final measurement) and the Monte Carlo drivers        *)
(* simulate and simulation_results.                                        *)
(*                                                                         *)
(* The quantum register is a state vector over the 9 qubits of            *)
(* main_circuit (logical_state 0..4, checks 5..8).  It is stored sparsely: *)
(* a function from the basis states with a nonzero amplitude to that       *)
(* amplitude.  Amplitudes are Gaussian integers <<re, im>>; the positive   *)
(* real factor 1/sqrt(2) of every Hadamard and the renormalisation after a *)
(* measurement are dropped, so psi is the simulator's vector up to a       *)
(* positive real scale.  That scale changes neither which outcomes a       *)
(* measurement can produce nor which ray the register is in.               *)
(***************************************************************************)
EXTENDS Integers, Sequences, FiniteSets, TLC

(***************************************************************************)
(* Bounds of the model.                                                    *)
(***************************************************************************)
\* largest number of low draws among the 15 draws of a seed's stream
MaxLow == 3
\* largest num_sims of a multi-trial run
MaxSims == 2
\* longest list of rates handed to simulation_results
MaxProbs == 2

(***************************************************************************)
(* Registers of main_circuit.                                              *)
(***************************************************************************)
NData == 5
NChecks == 4
NQubits == NData + NChecks

logical_state == [i \in 0..(NData - 1) |-> i]
checks == [i \in 0..(NChecks - 1) |-> NData + i]

Bit == {0, 1}

(***************************************************************************)
(* Complex amplitudes (Gaussian integers).                                 *)
(***************************************************************************)
CZero == <<0, 0>>
CAdd(a, b) == <<a[1] + b[1], a[2] + b[2]>>
CNeg(a) == <<0 - a[1], 0 - a[2]>>
CSub(a, b) == CAdd(a, CNeg(b))
CMulI(a) == <<0 - a[2], a[1]>>
CMul(a, b) == <<a[1] * b[1] - a[2] * b[2], a[1] * b[2] + a[2] * b[1]>>

(***************************************************************************)
(* State vector |0...0> and the gates of the circuit library.              *)
(***************************************************************************)
ZeroState == [b \in {[q \in 1..NQubits |-> 0]} |-> <<1, 0>>]

Flip(b, q) == [b EXCEPT ![q + 1] = 1 - @]
Amp(psi, b) == IF b \in DOMAIN psi THEN psi[b] ELSE CZero

\* Pauli X: |b> -> |b with bit q flipped>
GateX(psi, q) ==
    [b \in {Flip(c, q) : c \in DOMAIN psi} |-> psi[Flip(b, q)]]

\* Pauli Z: phase -1 where bit q is 1
GateZ(psi, q) ==
    [b \in DOMAIN psi |-> IF b[q + 1] = 1 THEN CNeg(psi[b]) ELSE psi[b]]

\* Pauli Y: |0> -> i|1>, |1> -> -i|0>
GateY(psi, q) ==
    [b \in {Flip(c, q) : c \in DOMAIN psi} |->
        IF b[q + 1] = 1 THEN CMulI(psi[Flip(b, q)])
                        ELSE CNeg(CMulI(psi[Flip(b, q)]))]

\* Phase gate S = diag(1, i)
GateS(psi, q) ==
    [b \in DOMAIN psi |-> IF b[q + 1] = 1 THEN CMulI(psi[b]) ELSE psi[b]]

\* Hadamard (times sqrt(2)): |0> -> |0> + |1>, |1> -> |0> - |1>
GateH(psi, q) ==
    LET cand == DOMAIN psi \cup {Flip(c, q) : c \in DOMAIN psi}
        new(b) == LET b0 == [b EXCEPT ![q + 1] = 0]
                      b1 == [b EXCEPT ![q + 1] = 1]
                  IN  IF b[q + 1] = 0
                      THEN CAdd(Amp(psi, b0), Amp(psi, b1))
                      ELSE CSub(Amp(psi, b0), Amp(psi, b1))
    IN  [b \in {c \in cand : new(c) # CZero} |-> new(b)]

\* Controlled gates: the Pauli acts on the part of psi whose control bit is 1
GateCX(psi, c, t) ==
    [b \in {IF d[c + 1] = 1 THEN Flip(d, t) ELSE d : d \in DOMAIN psi} |->
        IF b[c + 1] = 1 THEN psi[Flip(b, t)] ELSE psi[b]]

GateCZ(psi, c, t) ==
    [b \in DOMAIN psi |->
        IF b[c + 1] = 1 /\ b[t + 1] = 1 THEN CNeg(psi[b]) ELSE psi[b]]

GateCY(psi, c, t) ==
    [b \in {IF d[c + 1] = 1 THEN Flip(d, t) ELSE d : d \in DOMAIN psi} |->
        IF b[c + 1] = 1
        THEN IF b[t + 1] = 1 THEN CMulI(psi[Flip(b, t)])
                             ELSE CNeg(CMulI(psi[Flip(b, t)]))
        ELSE psi[b]]

\* A gate of a circuit: its name and the qubits it acts on
G1(name, q) == [name |-> name, qubits |-> <<q>>]
G2(name, c, t) == [name |-> name, qubits |-> <<c, t>>]

ApplyGate(psi, g) ==
    CASE g.name = "x"  -> GateX(psi, g.qubits[1])
      [] g.name = "y"  -> GateY(psi, g.qubits[1])
      [] g.name = "z"  -> GateZ(psi, g.qubits[1])
      [] g.name = "h"  -> GateH(psi, g.qubits[1])
      [] g.name = "s"  -> GateS(psi, g.qubits[1])
      [] g.name = "cx" -> GateCX(psi, g.qubits[1], g.qubits[2])
      [] g.name = "cy" -> GateCY(psi, g.qubits[1], g.qubits[2])
      [] g.name = "cz" -> GateCZ(psi, g.qubits[1], g.qubits[2])

RECURSIVE RunGates(_, _)
RunGates(psi, gates) ==
    IF gates = <<>> THEN psi
    ELSE RunGates(ApplyGate(psi, Head(gates)), Tail(gates))

\* Z-basis measurement of qubit q with outcome m: the surviving amplitudes
Project(psi, q, m) == [b \in {c \in DOMAIN psi : c[q + 1] = m} |-> psi[b]]

(***************************************************************************)
(* prepare_state(x): the encoding circuit.                                 *)
(***************************************************************************)
\* prepare_state with the test on x inverted
prepare_state_inverted(x) ==
    (IF x = FALSE THEN <<G1("x", 4)>> ELSE <<>>) \o
    << G1("h", 0), G1("s", 0),
       G2("cz", 0, 1), G2("cz", 0, 3), G2("cy", 0, 4),
       G1("h", 1),
       G2("cz", 1, 2), G2("cz", 1, 3), G2("cx", 1, 4),
       G1("h", 2),
       G2("cz", 2, 0), G2("cz", 2, 1), G2("cx", 2, 4),
       G1("h", 3), G1("s", 3),
       G2("cz", 3, 0), G2("cz", 3, 2), G2("cy", 3, 4) >>

prepare_state(x) ==
    (IF x = TRUE THEN <<G1("x", 4)>> ELSE <<>>) \o
    << G1("h", 0), G1("s", 0),
       G2("cz", 0, 1), G2("cz", 0, 3), G2("cy", 0, 4),
       G1("h", 1),
       G2("cz", 1, 2), G2("cz", 1, 3), G2("cx", 1, 4),
       G1("h", 2),
       G2("cz", 2, 0), G2("cz", 2, 1), G2("cx", 2, 4),
       G1("h", 3), G1("s", 3),
       G2("cz", 3, 0), G2("cz", 3, 2), G2("cy", 3, 4) >>

(***************************************************************************)
(* measure_syndromes(): the gates before the four measurements.            *)
(***************************************************************************)
\* measure_syndromes with cx in place of cz from checks[2] to qubit 3
measure_syndromes_gates_cx ==
    << \* XZZXI
       G1("h", checks[0]),
       G2("cx", checks[0], logical_state[0]),
       G2("cz", checks[0], logical_state[1]),
       G2("cz", checks[0], logical_state[2]),
       G2("cx", checks[0], logical_state[3]),
       G1("h", checks[0]),
       \* IXZZX
       G1("h", checks[1]),
       G2("cx", checks[1], logical_state[1]),
       G2("cz", checks[1], logical_state[2]),
       G2("cz", checks[1], logical_state[3]),
       G2("cx", checks[1], logical_state[4]),
       G1("h", checks[1]),
       \* XIXZZ
       G1("h", checks[2]),
       G2("cx", checks[2], logical_state[0]),
       G2("cx", checks[2], logical_state[2]),
       G2("cx", checks[2], logical_state[3]),
       G2("cz", checks[2], logical_state[4]),
       G1("h", checks[2]),
       \* ZXIXZ
       G1("h", checks[3]),
       G2("cz", checks[3], logical_state[0]),
       G2("cx", checks[3], logical_state[1]),
       G2("cx", checks[3], logical_state[3]),
       G2("cz", checks[3], logical_state[4]),
       G1("h", checks[3]) >>

measure_syndromes_gates ==
    << \* XZZXI
       G1("h", checks[0]),
       G2("cx", checks[0], logical_state[0]),
       G2("cz", checks[0], logical_state[1]),
       G2("cz", checks[0], logical_state[2]),
       G2("cx", checks[0], logical_state[3]),
       G1("h", checks[0]),
       \* IXZZX
       G1("h", checks[1]),
       G2("cx", checks[1], logical_state[1]),
       G2("cz", checks[1], logical_state[2]),
       G2("cz", checks[1], logical_state[3]),
       G2("cx", checks[1], logical_state[4]),
       G1("h", checks[1]),
       \* XIXZZ
       G1("h", checks[2]),
       G2("cx", checks[2], logical_state[0]),
       G2("cx", checks[2], logical_state[2]),
       G2("cz", checks[2], logical_state[3]),
       G2("cz", checks[2], logical_state[4]),
       G1("h", checks[2]),
       \* ZXIXZ
       G1("h", checks[3]),
       G2("cz", checks[3], logical_state[0]),
       G2("cx", checks[3], logical_state[1]),
       G2("cx", checks[3], logical_state[3]),
       G2("cz", checks[3], logical_state[4]),
       G1("h", checks[3]) >>

(***************************************************************************)
(* error_correction(): the switch over the integer value of the syndromes  *)
(* register (bit i of the register has weight 2^i).  There is no case 0    *)
(* and no default case.                                                    *)
(***************************************************************************)
RegisterValue(reg) ==
    reg[0] + 2 * reg[1] + 4 * reg[2] + 8 * reg[3]

\* error_correction with x(4) in place of y(4) in case 7
error_correction_case7(value) ==
    CASE value = 1  -> <<G1("x", 0)>>
      [] value = 2  -> <<G1("z", 2)>>
      [] value = 3  -> <<G1("x", 4)>>
      [] value = 4  -> <<G1("z", 4)>>
      [] value = 5  -> <<G1("z", 1)>>
      [] value = 6  -> <<G1("x", 3)>>
      [] value = 7  -> <<G1("x", 4)>>
      [] value = 8  -> <<G1("x", 1)>>
      [] value = 9  -> <<G1("z", 3)>>
      [] value = 10 -> <<G1("z", 0)>>
      [] value = 11 -> <<G1("y", 0)>>
      [] value = 12 -> <<G1("x", 2)>>
      [] value = 13 -> <<G1("y", 1)>>
      [] value = 14 -> <<G1("y", 2)>>
      [] value = 15 -> <<G1("y", 3)>>
      [] OTHER      -> <<>>

\* error_correction with z(1) in place of x(1) in case 8
error_correction_case8(value) ==
    CASE value = 1  -> <<G1("x", 0)>>
      [] value = 2  -> <<G1("z", 2)>>
      [] value = 3  -> <<G1("x", 4)>>
      [] value = 4  -> <<G1("z", 4)>>
      [] value = 5  -> <<G1("z", 1)>>
      [] value = 6  -> <<G1("x", 3)>>
      [] value = 7  -> <<G1("y", 4)>>
      [] value = 8  -> <<G1("z", 1)>>
      [] value = 9  -> <<G1("z", 3)>>
      [] value = 10 -> <<G1("z", 0)>>
      [] value = 11 -> <<G1("y", 0)>>
      [] value = 12 -> <<G1("x", 2)>>
      [] value = 13 -> <<G1("y", 1)>>
      [] value = 14 -> <<G1("y", 2)>>
      [] value = 15 -> <<G1("y", 3)>>
      [] OTHER      -> <<>>

error_correction(value) ==
    CASE value = 1  -> <<G1("x", 0)>>
      [] value = 2  -> <<G1("z", 2)>>
      [] value = 3  -> <<G1("x", 4)>>
      [] value = 4  -> <<G1("z", 4)>>
      [] value = 5  -> <<G1("z", 1)>>
      [] value = 6  -> <<G1("x", 3)>>
      [] value = 7  -> <<G1("y", 4)>>
      [] value = 8  -> <<G1("x", 1)>>
      [] value = 9  -> <<G1("z", 3)>>
      [] value = 10 -> <<G1("z", 0)>>
      [] value = 11 -> <<G1("y", 0)>>
      [] value = 12 -> <<G1("x", 2)>>
      [] value = 13 -> <<G1("y", 1)>>
      [] value = 14 -> <<G1("y", 2)>>
      [] value = 15 -> <<G1("y", 3)>>
      [] OTHER      -> <<>>

(***************************************************************************)
(* error_channel(p, nqubits, seed).                                        *)
(*                                                                         *)
(* Rates and draws are fractions <<numerator, denominator>>.  numpy's      *)
(* generator is a fixed function of the seed: default_rng(seed) is the     *)
(* generator at position 0 of the seed's stream, and rng.random(3) returns *)
(* the next three draws and advances the position by three.  The stream of *)
(* a seed is read off the seed's binary digits: draw k is the low draw 1/6 *)
(* iff bit k of the seed is 1 and the high draw 1/2 otherwise, so the      *)
(* seeds of SeedSpace produce every pattern of at most MaxLow low draws.   *)
(***************************************************************************)
Less(a, b) == a[1] * b[2] < b[1] * a[2]

DrawLo == <<1, 6>>
DrawHi == <<1, 2>>
\* rates 0, 1/3 and 2/3
Rates == {<<0, 1>>, <<1, 3>>, <<2, 3>>}

default_rng(s) == [seed |-> s, pos |-> 0]

RECURSIVE Pow2(_)
Pow2(k) == IF k = 0 THEN 1 ELSE 2 * Pow2(k - 1)

Stream(s, k) == IF (s \div Pow2(k)) % 2 = 1 THEN DrawLo ELSE DrawHi

\* rng.random(3): the three draws and the advanced generator
rng_random3(rng) ==
    [tuple |-> [j \in 0..2 |-> Stream(rng.seed, rng.pos + j)],
     rng   |-> [rng EXCEPT !.pos = @ + 3]]

\* the body of the loop with elif in place of the second and third if
error_channel_body_elif(p, i, random_tuple) ==
    IF Less(random_tuple[0], p) THEN <<G1("x", i)>>
    ELSE IF Less(random_tuple[1], p) THEN <<G1("y", i)>>
    ELSE IF Less(random_tuple[2], p) THEN <<G1("z", i)>>
    ELSE <<>>

\* the gates the body of the loop appends for qubit i
error_channel_body(p, i, random_tuple) ==
    (IF Less(random_tuple[0], p) THEN <<G1("x", i)>> ELSE <<>>) \o
    (IF Less(random_tuple[1], p) THEN <<G1("y", i)>> ELSE <<>>) \o
    (IF Less(random_tuple[2], p) THEN <<G1("z", i)>> ELSE <<>>)

RECURSIVE error_channel_loop(_, _, _, _, _)
error_channel_loop(p, nqubits, i, rng, gates) ==
    IF i >= nqubits THEN [gates |-> gates, rng |-> rng]
    ELSE LET r == rng_random3(rng)
         IN  error_channel_loop(p, nqubits, i + 1, r.rng,
                                gates \o error_channel_body(p, i, r.tuple))

error_channel(p, nqubits, s) ==
    error_channel_loop(p, nqubits, 0, default_rng(s), <<>>)

(***************************************************************************)
(* The result key of one shot and the codeword tuples of simulate.         *)
(* get_counts prints the registers last-added first and every register     *)
(* with its highest bit first: "c4c3c2c1c0 s3s2s1s0".                      *)
(***************************************************************************)
Chr(bit) == IF bit = 0 THEN "0" ELSE "1"

FormatKey(c, s) ==
    << Chr(c[4]), Chr(c[3]), Chr(c[2]), Chr(c[1]), Chr(c[0]), " ",
       Chr(s[3]), Chr(s[2]), Chr(s[1]), Chr(s[0]) >>

\* key[0:5]
KeyData(key) == SubSeq(key, 1, 5)

W(a, b, c, d, e) == <<Chr(a), Chr(b), Chr(c), Chr(d), Chr(e)>>

correct_states_false ==
    <<
       W(0, 0, 0, 0, 0), W(1, 0, 0, 1, 0), W(0, 1, 0, 0, 1), W(1, 0, 1, 0, 0),
       W(0, 1, 0, 1, 0), W(1, 1, 0, 1, 1), W(0, 0, 1, 1, 0), W(1, 1, 0, 0, 0),
       W(1, 1, 1, 0, 1), W(0, 0, 0, 1, 1), W(1, 1, 1, 1, 0), W(0, 1, 1, 1, 1),
       W(1, 0, 0, 0, 1), W(0, 1, 1, 0, 0), W(1, 0, 1, 1, 1), W(0, 0, 1, 0, 1) >>

\* correct_states for x = True with "00101" in place of "00100"
correct_states_true_typo ==
    <<
       W(1, 1, 1, 1, 1), W(0, 1, 1, 0, 1), W(1, 0, 1, 1, 0), W(0, 1, 0, 1, 1),
       W(1, 0, 1, 0, 1), W(0, 0, 1, 0, 1), W(1, 1, 0, 0, 1), W(0, 0, 1, 1, 1),
       W(0, 0, 0, 1, 0), W(1, 1, 1, 0, 0), W(0, 0, 0, 0, 1), W(1, 0, 0, 0, 0),
       W(0, 1, 1, 1, 0), W(1, 0, 0, 1, 1), W(0, 1, 0, 0, 0), W(1, 1, 0, 1, 0) >>

correct_states_true ==
    <<
       W(1, 1, 1, 1, 1), W(0, 1, 1, 0, 1), W(1, 0, 1, 1, 0), W(0, 1, 0, 1, 1),
       W(1, 0, 1, 0, 1), W(0, 0, 1, 0, 0), W(1, 1, 0, 0, 1), W(0, 0, 1, 1, 1),
       W(0, 0, 0, 1, 0), W(1, 1, 1, 0, 0), W(0, 0, 0, 0, 1), W(1, 0, 0, 0, 0),
       W(0, 1, 1, 1, 0), W(1, 0, 0, 1, 1), W(0, 1, 0, 0, 0), W(1, 1, 0, 1, 0) >>

correct_states(x) ==
    IF x = FALSE THEN correct_states_false ELSE correct_states_true

\* key[0:5] in correct_states
InStates(word, states) == \E k \in 1..Len(states) : states[k] = word

(***************************************************************************)
(* Inputs.  None (no seed supplied) is written NoSeed.                     *)
(***************************************************************************)
NoSeed == -1

NDraws == 3 * NData

\* number of low draws among the first NDraws draws of the stream of seed s
RECURSIVE LowDraws(_, _)
LowDraws(s, k) ==
    IF k >= NDraws THEN 0
    ELSE (IF Stream(s, k) = DrawLo THEN 1 ELSE 0) + LowDraws(s, k + 1)

SeedSpace == {s \in 0..(Pow2(NDraws) - 1) : LowDraws(s, 0) <= MaxLow}

\* seeds of the multi-trial runs and of the sweeps; also the values
\* np.random.randint returns in them when no seed is supplied
RunSeeds == {1, 10}

RECURSIVE SeqsUpTo(_, _)
SeqsUpTo(S, n) ==
    IF n = 0 THEN {<<>>}
    ELSE LET shorter == SeqsUpTo(S, n - 1)
         IN  shorter \cup {Append(q, e) : q \in {t \in shorter : Len(t) = n - 1},
                                          e \in S}

ProbLists == SeqsUpTo(Rates, MaxProbs) \ {<<>>}

(***************************************************************************)
(* State.                                                                  *)
(***************************************************************************)
VARIABLES
    x, probs, seed, num_sims,    \* arguments of simulation_results
    pc,                          \* position in simulation_results / simulate
    outcome,                     \* "running", "returned" or the exception
    results,                     \* simulation_results: dict rate -> result
    pidx,                        \* index of the next rate of probs (from 1)
    p,                           \* simulate: the rate of this call
    i,                           \* simulate: loop variable of the trial loop
    counts,                      \* simulate: dict key -> count
    correct_count, incorrect_count,
    seedUsed,                    \* main_circuit: seed handed to error_channel
    errGates,                    \* gates of the last error channel built
    rng,                         \* error_channel: its generator, at the
                                 \* start and at the end of the call
    psi,                         \* state vector of the 9 qubits
    syndromes, data,             \* classical registers s and c
    recovery,                    \* gates the switch applied in this shot
    observedCorrect,             \* shots of this call seen in correct_states
    trialsRun                    \* circuits built since the sweep started

vars == << x, probs, seed, num_sims, pc, outcome, results, pidx, p, i, counts,
           correct_count, incorrect_count, seedUsed, errGates, rng, psi,
           syndromes, data, recovery, observedCorrect, trialsRun >>

inputs == << x, probs, seed, num_sims >>

ZeroReg(n) == [k \in 0..(n - 1) |-> 0]
EmptyDict == [k \in {} |-> 0]
NoRng == [start |-> default_rng(NoSeed), end |-> default_rng(NoSeed)]

InitLocals ==
    /\ pc = "sweep"
    /\ outcome = "running"
    /\ results = EmptyDict
    /\ pidx = 1
    /\ p = <<0, 1>>
    /\ i = 0
    /\ counts = EmptyDict
    /\ correct_count = 0
    /\ incorrect_count = 0
    /\ seedUsed = NoSeed
    /\ errGates = <<>>
    /\ rng = NoRng
    /\ psi = ZeroState
    /\ syndromes = ZeroReg(NChecks)
    /\ data = ZeroReg(NData)
    /\ recovery = <<>>
    /\ observedCorrect = 0
    /\ trialsRun = 0

\* one trial at rate 1/3 under every seed of SeedSpace
InitTrial ==
    /\ x \in BOOLEAN
    /\ probs = << <<1, 3>> >>
    /\ seed \in SeedSpace
    /\ num_sims = 1
    /\ InitLocals

\* several trials at rate 0 or 1/3, with and without a seed
InitSims ==
    /\ x \in BOOLEAN
    /\ probs \in {<< <<0, 1>> >>, << <<1, 3>> >>}
    /\ seed \in RunSeeds \cup {NoSeed}
    /\ num_sims \in 2..MaxSims
    /\ InitLocals

\* sweeps over lists of rates, also with no trial and a negative count
InitSweep ==
    /\ x \in BOOLEAN
    /\ probs \in ProbLists
    /\ seed \in RunSeeds \cup {NoSeed}
    /\ num_sims \in (-1)..1
    /\ InitLocals

Init == InitTrial \/ InitSims \/ InitSweep

(***************************************************************************)
(* simulation_results: for p in probs: simulate(x, p, seed, num_sims).     *)
(***************************************************************************)
NextRate ==
    /\ pc = "sweep"
    /\ pidx <= Len(probs)
    /\ p' = probs[pidx]
    /\ counts' = EmptyDict
    /\ i' = 0
    /\ pc' = "loop"
    /\ UNCHANGED << inputs, outcome, results, pidx, correct_count,
                    incorrect_count, seedUsed, errGates, rng, psi, syndromes,
                    data, recovery, observedCorrect, trialsRun >>

SweepReturn ==
    /\ pc = "sweep"
    /\ pidx > Len(probs)
    /\ outcome' = "returned"
    /\ pc' = "done"
    /\ UNCHANGED << inputs, results, pidx, p, i, counts, correct_count,
                    incorrect_count, seedUsed, errGates, rng, psi, syndromes,
                    data, recovery, observedCorrect, trialsRun >>

(***************************************************************************)
(* simulate, one iteration of the trial loop: main_circuit(x, p, seed)     *)
(* builds the circuit (drawing the seed when none is supplied and building *)
(* the error channel), then the simulator runs it for one shot.            *)
(***************************************************************************)
BeginTrial ==
    /\ pc = "loop"
    /\ i < num_sims
    /\ \E s \in (IF seed = NoSeed THEN RunSeeds ELSE {seed}) :
          LET ch == error_channel(p, NData, s)
          IN  /\ seedUsed' = s
              /\ errGates' = ch.gates
              /\ rng' = [start |-> default_rng(s), end |-> ch.rng]
    /\ psi' = ZeroState
    /\ syndromes' = ZeroReg(NChecks)
    /\ data' = ZeroReg(NData)
    /\ recovery' = <<>>
    /\ trialsRun' = trialsRun + 1
    /\ pc' = "prepare"
    /\ UNCHANGED << inputs, outcome, results, pidx, p, i, counts,
                    correct_count, incorrect_count, observedCorrect >>

PrepareState ==
    /\ pc = "prepare"
    /\ psi' = RunGates(psi, prepare_state(x))
    /\ pc' = "error"
    /\ UNCHANGED << inputs, outcome, results, pidx, p, i, counts,
                    correct_count, incorrect_count, seedUsed, errGates, rng,
                    syndromes, data, recovery, observedCorrect, trialsRun >>

ErrorChannel ==
    /\ pc = "error"
    /\ psi' = RunGates(psi, errGates)
    /\ pc' = "syndromes"
    /\ UNCHANGED << inputs, outcome, results, pidx, p, i, counts,
                    correct_count, incorrect_count, seedUsed, errGates, rng,
                    syndromes, data, recovery, observedCorrect, trialsRun >>

\* the state after measuring checks[k] into syndromes[k] with outcomes s
RECURSIVE MeasureChecks(_, _, _)
MeasureChecks(st, s, k) ==
    IF k >= NChecks THEN st
    ELSE MeasureChecks(Project(st, checks[k], s[k]), s, k + 1)

MeasureSyndromes ==
    /\ pc = "syndromes"
    /\ LET st == RunGates(psi, measure_syndromes_gates)
       IN  \E s \in {[k \in 0..(NChecks - 1) |-> b[checks[k] + 1]] :
                        b \in DOMAIN st} :
              /\ syndromes' = s
              /\ psi' = MeasureChecks(st, s, 0)
    /\ pc' = "correction"
    /\ UNCHANGED << inputs, outcome, results, pidx, p, i, counts,
                    correct_count, incorrect_count, seedUsed, errGates, rng,
                    data, recovery, observedCorrect, trialsRun >>

ErrorCorrection ==
    /\ pc = "correction"
    /\ recovery' = error_correction(RegisterValue(syndromes))
    /\ psi' = RunGates(psi, recovery')
    /\ pc' = "measure"
    /\ UNCHANGED << inputs, outcome, results, pidx, p, i, counts,
                    correct_count, incorrect_count, seedUsed, errGates, rng,
                    syndromes, data, observedCorrect, trialsRun >>

\* the state after measuring logical_state[k] into data[k] with outcomes c
RECURSIVE MeasureQubits(_, _, _)
MeasureQubits(st, c, k) ==
    IF k >= NData THEN st
    ELSE MeasureQubits(Project(st, logical_state[k], c[k]), c, k + 1)

\* the final measurement of the shot
MeasureData ==
    /\ pc = "measure"
    /\ \E c \in {[k \in 0..(NData - 1) |-> b[logical_state[k] + 1]] :
                    b \in DOMAIN psi} :
          /\ data' = c
          /\ psi' = MeasureQubits(psi, c, 0)
          /\ observedCorrect' =
                IF InStates(KeyData(FormatKey(c, syndromes)), correct_states(x))
                THEN observedCorrect + 1 ELSE observedCorrect
    /\ pc' = "record"
    /\ UNCHANGED << inputs, outcome, results, pidx, p, i, counts,
                    correct_count, incorrect_count, seedUsed, errGates, rng,
                    syndromes, recovery, trialsRun >>

\* counts where the value of a key already present is replaced, not added to
UpdateCounts_replace(cnt, key) ==
    [k \in DOMAIN cnt \cup {key} |-> IF k = key THEN 1 ELSE cnt[k]]

\* counts after merging the one-shot result {key: 1}
UpdateCounts(cnt, key) ==
    IF key \in DOMAIN cnt
    THEN [cnt EXCEPT ![key] = @ + 1]
    ELSE [k \in DOMAIN cnt \cup {key} |-> IF k = key THEN 1 ELSE cnt[k]]

\* simulate: get_counts of the shot merged into counts; the circuit and the
\* job of the shot are dropped
RecordCounts ==
    /\ pc = "record"
    /\ counts' = UpdateCounts(counts, FormatKey(data, syndromes))
    /\ i' = i + 1
    /\ psi' = ZeroState
    /\ syndromes' = ZeroReg(NChecks)
    /\ data' = ZeroReg(NData)
    /\ recovery' = <<>>
    /\ pc' = "loop"
    /\ UNCHANGED << inputs, outcome, results, pidx, p, correct_count,
                    incorrect_count, seedUsed, errGates, rng, observedCorrect,
                    trialsRun >>

RECURSIVE SumCounts(_, _)
SumCounts(cnt, keys) ==
    IF keys = {} THEN 0
    ELSE LET k == CHOOSE k \in keys : TRUE
         IN  cnt[k] + SumCounts(cnt, keys \ {k})

\* simulate after the loop: grade the keys of counts
Grade ==
    /\ pc = "loop"
    /\ i >= num_sims
    /\ correct_count' = SumCounts(counts,
          {k \in DOMAIN counts : InStates(KeyData(k), correct_states(x))})
    /\ incorrect_count' = SumCounts(counts,
          {k \in DOMAIN counts : ~InStates(KeyData(k), correct_states(x))})
    /\ pc' = "graded"
    /\ UNCHANGED << inputs, outcome, results, pidx, p, i, counts, seedUsed,
                    errGates, rng, psi, syndromes, data, recovery,
                    observedCorrect, trialsRun >>

\* results.update({p: result})
UpdateDict(d, k, v) == [j \in DOMAIN d \cup {k} |-> IF j = k THEN v ELSE d[j]]

\* simulation_results: result = correct_count/num_sims, kept as the pair
\* <<numerator, denominator>>; the locals of the simulate call are gone
SweepUpdate ==
    /\ pc = "graded"
    /\ num_sims # 0
    /\ results' = UpdateDict(results, p, <<correct_count, num_sims>>)
    /\ pidx' = pidx + 1
    /\ i' = 0
    /\ counts' = EmptyDict
    /\ correct_count' = 0
    /\ incorrect_count' = 0
    /\ seedUsed' = NoSeed
    /\ errGates' = <<>>
    /\ rng' = NoRng
    /\ observedCorrect' = 0
    /\ pc' = "sweep"
    /\ UNCHANGED << inputs, outcome, p, psi, syndromes, data, recovery,
                    trialsRun >>

SweepDivideByZero ==
    /\ pc = "graded"
    /\ num_sims = 0
    /\ outcome' = "ZeroDivisionError"
    /\ pc' = "done"
    /\ UNCHANGED << inputs, results, pidx, p, i, counts, correct_count,
                    incorrect_count, seedUsed, errGates, rng, psi, syndromes,
                    data, recovery, observedCorrect, trialsRun >>

Next ==
    \/ NextRate
    \/ SweepReturn
    \/ BeginTrial
    \/ PrepareState
    \/ ErrorChannel
    \/ MeasureSyndromes
    \/ ErrorCorrection
    \/ MeasureData
    \/ RecordCounts
    \/ Grade
    \/ SweepUpdate
    \/ SweepDivideByZero

Spec == Init /\ [][Next]_vars

(***************************************************************************)
(* Notions the properties are stated in.                                   *)
(***************************************************************************)
\* the five characters key[0:5] of the shot just measured
DataString == KeyData(FormatKey(data, syndromes))

\* the gates of a gate sequence that act on qubit q and are named n
CountGates(gates, n, q) ==
    Cardinality({k \in 1..Len(gates) :
                    gates[k].name = n /\ gates[k].qubits = <<q>>})

\* the Pauli a sequence of x, y, z gates amounts to on qubit q, up to a
\* phase: its X part and its Z part
NetX(gates, q) == (CountGates(gates, "x", q) + CountGates(gates, "y", q)) % 2
NetZ(gates, q) == (CountGates(gates, "z", q) + CountGates(gates, "y", q)) % 2

\* the qubits on which the error channel of this trial is not the identity
NetQubits ==
    {q \in 0..(NData - 1) : NetX(errGates, q) = 1 \/ NetZ(errGates, q) = 1}

\* the stabilizer generators XZZXI, IXZZX, XIXZZ, ZXIXZ
Generators ==
    [k \in 0..(NChecks - 1) |->
        CASE k = 0 -> [q \in 0..4 |-> <<"X", "Z", "Z", "X", "I">>[q + 1]]
          [] k = 1 -> [q \in 0..4 |-> <<"I", "X", "Z", "Z", "X">>[q + 1]]
          [] k = 2 -> [q \in 0..4 |-> <<"X", "I", "X", "Z", "Z">>[q + 1]]
          [] k = 3 -> [q \in 0..4 |-> <<"Z", "X", "I", "X", "Z">>[q + 1]]]

\* the error of this trial anticommutes with generator k
Anticommutes(k) ==
    Cardinality({q \in 0..(NData - 1) :
        \/ NetX(errGates, q) = 1 /\ Generators[k][q] = "Z"
        \/ NetZ(errGates, q) = 1 /\ Generators[k][q] = "X"}) % 2 = 1

\* two state vectors are the same up to a complex factor
SameRay(a, b) ==
    /\ DOMAIN a = DOMAIN b
    /\ DOMAIN a # {}
    /\ LET u == CHOOSE w \in DOMAIN a : TRUE
       IN  \A v \in DOMAIN a : CMul(a[u], b[v]) = CMul(a[v], b[u])

\* the data register in state st next to checks that were measured as s
WithChecks(st, s) ==
    [b \in {[q \in 1..NQubits |->
                IF q <= NData THEN c[q] ELSE s[q - NData - 1]] :
            c \in DOMAIN st} |->
        st[[q \in 1..NQubits |-> IF q <= NData THEN b[q] ELSE 0]]]

\* the encoded state of x, checks in |0000>
Encoded(b) == RunGates(ZeroState, prepare_state(b))

\* a sweep's configuration is invalid
InvalidConfig ==
    \/ num_sims < 0
    \/ \E k \in 1..Len(probs) :
          Less(probs[k], <<0, 1>>) \/ Less(<<1, 3>>, probs[k])

ToSet(s) == {s[k] : k \in 1..Len(s)}

(***************************************************************************)
(* C1.  With error rate 0 every trial, for both x and every seed, ends     *)
(* with a data string in the codeword set of x, and simulate returns       *)
(* (num_sims, 0).                                                          *)
(***************************************************************************)
C1_NoErrorAlwaysCorrect ==
    /\ (pc = "record" /\ p = <<0, 1>>) =>
          /\ errGates = <<>>
          /\ InStates(DataString, correct_states(x))
    /\ (pc = "graded" /\ p = <<0, 1>> /\ num_sims >= 0) =>
          /\ correct_count = num_sims
          /\ incorrect_count = 0

C1_Witness ==
    /\ pc = "graded"
    /\ p = <<0, 1>>
    /\ x = TRUE
    /\ num_sims = 2
    /\ correct_count = 2

(***************************************************************************)
(* C2.  A single Pauli error P on one data qubit q makes the syndrome      *)
(* value select exactly P on q as the recovery, and the register returns   *)
(* to the encoded state of x; a single X on qubit 0 gives syndrome value 1 *)
(* and recovery X(0).                                                      *)
(***************************************************************************)
C2_SinglePauliUndone ==
    (pc = "measure" /\ Len(errGates) = 1) =>
        /\ recovery = errGates
        /\ SameRay(psi, WithChecks(Encoded(x), syndromes))
        /\ errGates = <<G1("x", 0)>> => RegisterValue(syndromes) = 1

(***************************************************************************)
(* C3.  error_correction is total over the 16 syndrome values: value 0     *)
(* applies nothing and leaves the register as it is, every other value     *)
(* applies the one Pauli of the table and nothing else.                    *)
(***************************************************************************)
CorrectionTable ==
    << <<"x", 0>>, <<"z", 2>>, <<"x", 4>>, <<"z", 4>>, <<"z", 1>>,
       <<"x", 3>>, <<"y", 4>>, <<"x", 1>>, <<"z", 3>>, <<"z", 0>>,
       <<"y", 0>>, <<"x", 2>>, <<"y", 1>>, <<"y", 2>>, <<"y", 3>> >>

C3_CorrectionTotal ==
    [][(pc = "correction" /\ pc' = "measure") =>
          LET v == RegisterValue(syndromes)
          IN  /\ v \in 0..15
              /\ v = 0 => (recovery' = <<>> /\ psi' = psi)
              /\ v # 0 =>
                    /\ Len(recovery') = 1
                    /\ recovery'[1].name = CorrectionTable[v][1]
                    /\ recovery'[1].qubits = <<CorrectionTable[v][2]>>
                    /\ psi' = ApplyGate(psi, recovery'[1])]_vars

C3_Witness ==
    /\ pc = "measure"
    /\ RegisterValue(syndromes) = 15
    /\ recovery = <<G1("y", 3)>>

(***************************************************************************)
(* C4.  The two codeword tuples simulate grades with are disjoint, hold 16 *)
(* distinct strings each and together all 32 five-bit strings, so the data *)
(* string of every shot is in exactly one of them.                         *)
(***************************************************************************)
AllStrings == {W(a, b, c, d, e) : a \in Bit, b \in Bit, c \in Bit,
                                  d \in Bit, e \in Bit}

C4_CodewordsPartition ==
    /\ pc = "graded" =>
          /\ Len(correct_states(FALSE)) = 16
          /\ Len(correct_states(TRUE)) = 16
          /\ Cardinality(ToSet(correct_states(FALSE))) = 16
          /\ Cardinality(ToSet(correct_states(TRUE))) = 16
          /\ ToSet(correct_states(FALSE)) \cap ToSet(correct_states(TRUE)) = {}
          /\ ToSet(correct_states(FALSE)) \cup ToSet(correct_states(TRUE))
                = AllStrings
    /\ pc = "record" =>
          InStates(DataString, correct_states(FALSE))
              # InStates(DataString, correct_states(TRUE))

C4_Witness ==
    /\ pc = "record"
    /\ x = FALSE
    /\ InStates(DataString, correct_states(TRUE))

(***************************************************************************)
(* C5.  In a run with a supplied seed, the generator of trial k > 0 is     *)
(* seeded from the seed plus k or continues the generator of trial k - 1;  *)
(* it does not start in the state another trial of the run started in.     *)
(***************************************************************************)
C5_FreshGeneratorPerTrial ==
    [][(pc = "loop" /\ pc' = "prepare" /\ seed # NoSeed /\ i > 0) =>
          /\ rng'.start = default_rng(seed + i) \/ rng'.start = rng.end
          /\ rng'.start # rng.start]_vars

(***************************************************************************)
(* C6.  error_channel is a function of (p, nqubits, seed): it takes three  *)
(* draws per qubit in order and appends X iff the first is below p, then Y *)
(* iff the second is, then Z iff the third is, each test on its own; a     *)
(* second call with the same arguments builds the same gates.              *)
(***************************************************************************)
ExpectedGates(rate, s) ==
    LET on(q, j, n) ==
            IF Less(Stream(s, 3 * q + j), rate) THEN <<G1(n, q)>> ELSE <<>>
        at(q) == on(q, 0, "x") \o on(q, 1, "y") \o on(q, 2, "z")
    IN  at(0) \o at(1) \o at(2) \o at(3) \o at(4)

C6_ErrorChannelDeterministic ==
    [][(pc = "loop" /\ pc' = "prepare") =>
          /\ errGates' = ExpectedGates(p, seedUsed')
          /\ rng'.start = default_rng(seedUsed')
          /\ rng'.end = [seed |-> seedUsed', pos |-> 3 * NData]
          /\ seedUsed' = seedUsed => errGates' = errGates]_vars

C6_Witness ==
    /\ pc = "prepare"
    /\ i = 1
    /\ seed # NoSeed
    /\ errGates = <<G1("y", 0), G1("x", 1)>>

(***************************************************************************)
(* C7.  simulate counts each of its num_sims trials once, as correct iff   *)
(* the data string is in the codeword set of x, so the two counts add up   *)
(* to num_sims; simulation_results maps each rate of the list to           *)
(* correct_count / num_sims.                                               *)
(***************************************************************************)
C7_CountsState ==
    /\ pc \in {"loop", "graded"} => SumCounts(counts, DOMAIN counts) = i
    /\ (pc = "graded" /\ num_sims >= 0) =>
          /\ i = num_sims
          /\ correct_count = observedCorrect
          /\ correct_count + incorrect_count = num_sims
    /\ \A r \in DOMAIN results :
          /\ r \in ToSet(SubSeq(probs, 1, pidx - 1))
          /\ results[r][2] = num_sims
    /\ pc = "sweep" => DOMAIN results = ToSet(SubSeq(probs, 1, pidx - 1))
    /\ (pc = "done" /\ num_sims >= 1) =>
          /\ outcome = "returned"
          /\ DOMAIN results = ToSet(probs)

C7_EveryTrialCounted ==
    /\ []C7_CountsState
    /\ [][(pc = "graded" /\ pc' = "sweep") =>
             /\ results'[p] = <<correct_count, num_sims>>
             /\ \A r \in DOMAIN results' \ {p} :
                   r \in DOMAIN results /\ results'[r] = results[r]]_vars

C7_Witness ==
    /\ pc = "graded"
    /\ num_sims = 2
    /\ correct_count = 1
    /\ incorrect_count = 1
    /\ Cardinality(DOMAIN counts) = 2

(***************************************************************************)
(* C8.  A sweep with an invalid configuration (a rate outside [0, 1/3] or  *)
(* a negative trial count) fails with InvalidParameterError before any     *)
(* trial: no circuit is built and no result entry is produced.             *)
(***************************************************************************)
C8_InvalidConfigRejected ==
    InvalidConfig =>
        /\ trialsRun = 0
        /\ results = EmptyDict
        /\ pc = "done" => outcome = "InvalidParameterError"

(***************************************************************************)
(* C9.  After prepare_state(x) and any Pauli error E, measure_syndromes    *)
(* has one possible outcome: syndrome bit k is 1 iff E anticommutes with   *)
(* generator k; the data register is left as it was.  With no error the    *)
(* syndrome is 0000 for both x.                                            *)
(***************************************************************************)
C9_SyndromeIsCommutator ==
    [][(pc = "syndromes" /\ pc' = "correction") =>
          /\ \A k \in 0..(NChecks - 1) :
                syndromes'[k] = (IF Anticommutes(k) THEN 1 ELSE 0)
          /\ errGates = <<>> => RegisterValue(syndromes') = 0
          /\ SameRay(psi', WithChecks(psi, syndromes'))]_vars

C9_Witness ==
    /\ pc = "correction"
    /\ Cardinality(NetQubits) = 2
    /\ RegisterValue(syndromes) = 15

(***************************************************************************)
(* C10.  When the error channel amounts to a Pauli on at most one data     *)
(* qubit (X, Y and Z on one qubit cancel), the data string measured after  *)
(* recovery is in the codeword set of x, for both x.                       *)
(***************************************************************************)
C10_SingleErrorCorrect ==
    (pc = "record" /\ Cardinality(NetQubits) <= 1) =>
        InStates(DataString, correct_states(x))

C10_Witness ==
    /\ pc = "record"
    /\ x = TRUE
    /\ errGates = <<G1("x", 2), G1("y", 2), G1("z", 2)>>
    /\ InStates(DataString, correct_states(x))

====
